---- MODULE Spec2Model ----
(***************************************************************************)
(* The cached RSS/Atom news aggregator of src/main.py: _fetch_feed,        *)
(* _parse_date, the module-level _news_cache and the get_news handler.     *)
(*                                                                         *)
(* Text is a sequence of one-character strings, so that str.strip() is a   *)
(* computation and not the identity.  An item's "source" field (_domain of *)
(* the link) is read by no branch of get_news and is left out of the item  *)
(* record.  get_news is a sync FastAPI endpoint: each request runs on a    *)
(* worker thread, and a thread switch can fall between any two accesses of *)
(* _news_cache, so every access of the shared dict is its own step.        *)
(***************************************************************************)
EXTENDS Integers, Sequences, FiniteSets, TLC

\* ------------------------------------------------------------------ bounds
\* _CACHE_TTL = 60 * 10
CACHE_TTL == 600
\* wall-clock time (epoch seconds) at process start; far beyond the TTL
StartClock == 1200
\* the clock advances in steps of TickStep seconds, at most MaxTicks times
TickStep == 300
MaxTicks == 2
\* entries per feed document (SpecParse)
MaxEntries == 2
\* length of the concatenated all_items list (SpecMerge)
MaxConcat == 4
\* length of the cached list (SpecPage); above 50 so the page_size cap shows
MaxTotal == 52

\* the worker threads handling requests
Reqs == {"r1", "r2"}
\* _FEEDS, the configured feed list, cut to two feeds
FEEDS == <<"feedA", "feedB">>

Max(a, b) == IF a >= b THEN a ELSE b
Min(a, b) == IF a <= b THEN a ELSE b

\* ------------------------------------------------------------------ text
WS == {" "}

RECURSIVE LStrip(_)
LStrip(s) == IF s # <<>> /\ Head(s) \in WS THEN LStrip(Tail(s)) ELSE s

RECURSIVE RStrip(_)
RStrip(s) ==
  IF s # <<>> /\ s[Len(s)] \in WS THEN RStrip(SubSeq(s, 1, Len(s) - 1)) ELSE s

\* str.strip()
Strip(s) == RStrip(LStrip(s))

\* A child element (or attribute) of a feed entry as ElementTree shows it:
\*   el = "absent": find()/findtext() give None
\*   el = "empty" : the element is there with no text (findtext gives '',
\*                  .text gives None; for the Atom link, no href attribute)
\*   el = "text"  : the text (or href) is `text`
Absent == [el |-> "absent", text |-> <<>>]
Empty == [el |-> "empty", text |-> <<>>]
Text(s) == [el |-> "text", text |-> s]

\* A date text stands for a string of one of the shapes strptime is tried
\* on; `epoch` is what .timestamp() gives for it when its format matches.
NoDate == [fmt |-> "empty", epoch |-> 0]
DateText(f, e) == [fmt |-> f, epoch |-> e]

\* _parse_date: the three formats in order, 0.0 when none matches
ParseDate(d) ==
  IF d.fmt = "rfc822" THEN d.epoch
  ELSE IF d.fmt = "iso_offset" THEN d.epoch
  ELSE IF d.fmt = "iso_z" THEN d.epoch
  ELSE 0

\* item.findtext(tag) or ''
FindTextOr(f) == IF f.el = "text" THEN f.text ELSE <<>>

MkItem(title, link, pub) ==
  [title |-> title, link |-> link, published |-> pub, timestamp |-> ParseDate(pub)]

\* the RSS branch: for item in channel.findall('item')
RECURSIVE RssItems(_)
RssItems(es) ==
  IF es = <<>> THEN <<>>
  ELSE LET e == Head(es)
           title == Strip(FindTextOr(e.title))
           link == Strip(FindTextOr(e.link))
           pub == IF e.pubDate.fmt # "empty" THEN e.pubDate ELSE e.date
       IN (IF title # <<>> /\ link # <<>> THEN <<MkItem(title, link, pub)>> ELSE <<>>)
            \o RssItems(Tail(es))

\* the Atom branch: (x.text if x is not None else '').strip() raises
\* AttributeError when the element is there and its text (or href) is None
AtomRaises(e) == e.title.el = "empty" \/ e.link.el = "empty"

RECURSIVE AtomItems(_)
AtomItems(es) ==
  IF es = <<>> THEN [raised |-> FALSE, items |-> <<>>]
  ELSE LET e == Head(es) IN
       IF AtomRaises(e) THEN [raised |-> TRUE, items |-> <<>>]
       ELSE LET title == Strip(e.title.text)
                link == Strip(e.link.text)
                pub == e.updated
                rest == AtomItems(Tail(es))
            IN [raised |-> rest.raised,
                items |-> (IF title # <<>> /\ link # <<>>
                             THEN <<MkItem(title, link, pub)>> ELSE <<>>) \o rest.items]

FailureKinds == {"neterr", "timeout", "http_error", "badxml"}
IsFailure(resp) == resp.kind \in FailureKinds

\* the try block of _fetch_feed: what it computes, or that it raised
FetchFeedTry(resp) ==
  IF resp.kind \in FailureKinds THEN [raised |-> TRUE, items |-> <<>>]
  ELSE IF resp.kind = "rss" THEN [raised |-> FALSE, items |-> RssItems(resp.entries)]
  ELSE AtomItems(resp.entries)

\* a _fetch_feed in which the exception leaves the function
FetchFeedNoCatch(resp) ==
  LET t == FetchFeedTry(resp) IN [escaped |-> t.raised, items |-> t.items]

\* _fetch_feed: `except Exception: return []`
FetchFeed(resp) ==
  LET t == FetchFeedTry(resp) IN
  [escaped |-> FALSE, items |-> IF t.raised THEN <<>> ELSE t.items]

\* ------------------------------------------------------------------ merge
\* sorted(all_items, key=timestamp, reverse=True): stable, ties keep input order
RECURSIVE InsertDesc(_, _)
InsertDesc(sorted, x) ==
  IF sorted = <<>> THEN <<x>>
  ELSE IF x.timestamp > Head(sorted).timestamp THEN <<x>> \o sorted
  ELSE <<Head(sorted)>> \o InsertDesc(Tail(sorted), x)

RECURSIVE SortFrom(_, _)
SortFrom(acc, xs) ==
  IF xs = <<>> THEN acc ELSE SortFrom(InsertDesc(acc, Head(xs)), Tail(xs))

\* an ascending sort read backwards: ties come out in reverse input order
RECURSIVE InsertAsc(_, _)
InsertAsc(sorted, x) ==
  IF sorted = <<>> THEN <<x>>
  ELSE IF x.timestamp < Head(sorted).timestamp THEN <<x>> \o sorted
  ELSE <<Head(sorted)>> \o InsertAsc(Tail(sorted), x)

RECURSIVE SortAscFrom(_, _)
SortAscFrom(acc, xs) ==
  IF xs = <<>> THEN acc ELSE SortAscFrom(InsertAsc(acc, Head(xs)), Tail(xs))

Reverse(s) == [k \in 1..Len(s) |-> s[Len(s) + 1 - k]]

SortDescReversed(xs) == Reverse(SortAscFrom(<<>>, xs))

SortDesc(xs) == SortFrom(<<>>, xs)

\* the loop over `items` with the `seen` set
RECURSIVE DedupeFrom(_, _, _)
DedupeFrom(seen, deduped, xs) ==
  IF xs = <<>> THEN deduped
  ELSE LET it == Head(xs) IN
       IF it.link # <<>> /\ it.link \notin seen
         THEN DedupeFrom(seen \cup {it.link}, Append(deduped, it), Tail(xs))
         ELSE DedupeFrom(seen, deduped, Tail(xs))

\* a dedupe that lets a later item of the same link replace the kept one
RECURSIVE DedupeLastFrom(_, _)
DedupeLastFrom(deduped, xs) ==
  IF xs = <<>> THEN deduped
  ELSE LET it == Head(xs)
           hit == {k \in 1..Len(deduped) : deduped[k].link = it.link}
       IN IF hit = {} THEN DedupeLastFrom(Append(deduped, it), Tail(xs))
          ELSE DedupeLastFrom([deduped EXCEPT ![CHOOSE k \in hit : TRUE] = it], Tail(xs))

DedupeKeepLast(xs) == DedupeLastFrom(<<>>, xs)

Dedupe(xs) == DedupeFrom({}, <<>>, xs)

\* ------------------------------------------------------------------ pagination
\* a slice that takes the element at `end` too
SliceInclusive(xs, start, end) ==
  IF start >= Len(xs) THEN <<>> ELSE SubSeq(xs, start + 1, Min(end + 1, Len(xs)))

\* items[start:end] for 0 <= start <= end
Slice(xs, start, end) ==
  IF start >= Len(xs) THEN <<>> ELSE SubSeq(xs, start + 1, Min(end, Len(xs)))

ClampPage(page) == Max(1, page)
ClampPageSize(ps) == Max(1, Min(50, ps))

\* the response dict of get_news, cut from the one list `xs`
Response(xs, p, ps) ==
  LET start == (p - 1) * ps
      end == start + ps
  IN [status |-> 200, items |-> Slice(xs, start, end), page |-> p, page_size |-> ps,
      has_more |-> end < Len(xs), total |-> Len(xs)]

\* ------------------------------------------------------------------ state
VARIABLES
  cache,      \* _news_cache: [ts, items]
  origin,     \* which recomputation wrote cache.ts and which wrote cache.items
  clock,      \* time.time()
  ticks,      \* how often the clock has advanced
  pc,         \* pc[r]: where request r stands in get_news
  query,      \* the page and page_size parameters the request came with
  page,       \* get_news locals, per request
  page_size,
  now,
  all_items,
  items,
  fetches,    \* _fetch_feed calls made so far by the request being handled
  last_resp,  \* the HTTP response the latest _fetch_feed call of r received
  resp        \* what the request returned

vars == <<cache, origin, clock, ticks, pc, query, page, page_size, now, all_items, items,
          fetches, last_resp, resp>>

NumFeeds == Len(FEEDS)
NoResponse == [kind |-> "none", entries |-> <<>>]
Pending == [status |-> 0]
InitTag == <<"init", 0>>
Tag(r) == <<r, now[r]>>

Locals0 ==
  /\ query = [r \in Reqs |-> [page |-> 1, page_size |-> 12]]
  /\ page = [r \in Reqs |-> 1]
  /\ page_size = [r \in Reqs |-> 12]
  /\ now = [r \in Reqs |-> 0]
  /\ all_items = [r \in Reqs |-> <<>>]
  /\ items = [r \in Reqs |-> <<>>]
  /\ fetches = [r \in Reqs |-> 0]
  /\ last_resp = [r \in Reqs |-> NoResponse]
  /\ resp = [r \in Reqs |-> Pending]

\* process start: _news_cache = {"ts": 0, "items": []}, no request in flight
Init ==
  /\ cache = [ts |-> 0, items |-> <<>>]
  /\ origin = [ts |-> InitTag, items |-> InitTag]
  /\ clock = StartClock
  /\ ticks = 0
  /\ pc = [r \in Reqs |-> "idle"]
  /\ Locals0

\* time passes
Tick ==
  /\ ticks < MaxTicks
  /\ ticks' = ticks + 1
  /\ clock' = clock + TickStep
  /\ UNCHANGED <<cache, origin, pc, query, page, page_size, now, all_items, items, fetches,
                 last_resp, resp>>

\* get_news(page, page_size) is entered: the clamps and now = time.time()
Start(r, p, ps) ==
  /\ pc[r] \in {"idle", "done"}
  /\ pc' = [pc EXCEPT ![r] = "check_ts"]
  /\ query' = [query EXCEPT ![r] = [page |-> p, page_size |-> ps]]
  /\ page' = [page EXCEPT ![r] = ClampPage(p)]
  /\ page_size' = [page_size EXCEPT ![r] = ClampPageSize(ps)]
  /\ now' = [now EXCEPT ![r] = clock]
  /\ all_items' = [all_items EXCEPT ![r] = <<>>]
  /\ items' = [items EXCEPT ![r] = <<>>]
  /\ fetches' = [fetches EXCEPT ![r] = 0]
  /\ last_resp' = [last_resp EXCEPT ![r] = NoResponse]
  /\ resp' = [resp EXCEPT ![r] = Pending]
  /\ UNCHANGED <<cache, origin, clock, ticks>>

\* a freshness test that takes half the TTL for the TTL
TsStaleHalfTTL(r) == 2 * (now[r] - cache.ts) >= CACHE_TTL

\* now - _news_cache.get("ts", 0) >= _CACHE_TTL
TsStale(r) == now[r] - cache.ts >= CACHE_TTL

\* a test of the list that takes an empty list for a cached result
ItemsStaleNever(r) == FALSE

\* not _news_cache.get("items")
ItemsStale(r) == cache.items = <<>>

\* a timestamp test that waits while another request is refreshing
CheckTsSingleFlight(r) ==
  /\ pc[r] = "check_ts"
  /\ TsStale(r) => \A q \in Reqs \ {r} : pc[q] \notin {"fetch", "merge", "store_ts"}
  /\ pc' = [pc EXCEPT ![r] = IF TsStale(r) THEN "fetch" ELSE "check_items"]
  /\ UNCHANGED <<cache, origin, clock, ticks, query, page, page_size, now, all_items, items,
                 fetches, last_resp, resp>>

\* the left operand of the `or`: the timestamp is read
CheckTs(r) ==
  /\ pc[r] = "check_ts"
  /\ pc' = [pc EXCEPT ![r] = IF TsStale(r) THEN "fetch" ELSE "check_items"]
  /\ UNCHANGED <<cache, origin, clock, ticks, query, page, page_size, now, all_items, items,
                 fetches, last_resp, resp>>

\* the right operand of the `or`: the list is read
CheckItems(r) ==
  /\ pc[r] = "check_items"
  /\ pc' = [pc EXCEPT ![r] = IF ItemsStale(r) THEN "fetch" ELSE "read"]
  /\ UNCHANGED <<cache, origin, clock, ticks, query, page, page_size, now, all_items, items,
                 fetches, last_resp, resp>>

\* one turn of `for feed in _FEEDS: all_items.extend(_fetch_feed(feed))`, the
\* feed answering with some response of D
FetchStep(r, D) ==
  /\ pc[r] = "fetch"
  /\ \E got \in D :
       LET res == FetchFeed(got) IN
       /\ last_resp' = [last_resp EXCEPT ![r] = got]
       /\ fetches' = [fetches EXCEPT ![r] = @ + 1]
       /\ IF res.escaped
            THEN /\ pc' = [pc EXCEPT ![r] = "done"]
                 /\ resp' = [resp EXCEPT ![r] = [status |-> 500]]
                 /\ UNCHANGED all_items
            ELSE /\ all_items' = [all_items EXCEPT ![r] = @ \o res.items]
                 /\ pc' = [pc EXCEPT ![r] =
                             IF fetches[r] + 1 = NumFeeds THEN "merge" ELSE "fetch"]
                 /\ UNCHANGED resp
  /\ UNCHANGED <<cache, origin, clock, ticks, query, page, page_size, now, items>>

\* sorted(...), the dedupe loop and _news_cache["items"] = deduped
MergeStore(r) ==
  /\ pc[r] = "merge"
  /\ cache' = [cache EXCEPT !.items = Dedupe(SortDesc(all_items[r]))]
  /\ origin' = [origin EXCEPT !.items = Tag(r)]
  /\ pc' = [pc EXCEPT ![r] = "store_ts"]
  /\ UNCHANGED <<clock, ticks, query, page, page_size, now, all_items, items, fetches,
                 last_resp, resp>>

\* _news_cache["ts"] = now
StoreTs(r) ==
  /\ pc[r] = "store_ts"
  /\ cache' = [cache EXCEPT !.ts = now[r]]
  /\ origin' = [origin EXCEPT !.ts = Tag(r)]
  /\ pc' = [pc EXCEPT ![r] = "read"]
  /\ UNCHANGED <<clock, ticks, query, page, page_size, now, all_items, items, fetches,
                 last_resp, resp>>

\* items = _news_cache["items"]
ReadItems(r) ==
  /\ pc[r] = "read"
  /\ items' = [items EXCEPT ![r] = cache.items]
  /\ pc' = [pc EXCEPT ![r] = "slice"]
  /\ UNCHANGED <<cache, origin, clock, ticks, query, page, page_size, now, all_items, fetches,
                 last_resp, resp>>

\* a return that looks the list up in the cache again for has_more and total
RespondRereads(r) ==
  /\ pc[r] = "slice"
  /\ resp' = [resp EXCEPT ![r] =
       [Response(items[r], page[r], page_size[r]) EXCEPT
          !.has_more = page[r] * page_size[r] < Len(cache.items),
          !.total = Len(cache.items)]]
  /\ pc' = [pc EXCEPT ![r] = "done"]
  /\ UNCHANGED <<cache, origin, clock, ticks, query, page, page_size, now, all_items, items,
                 fetches, last_resp>>

\* start, end, has_more and the return
Respond(r) ==
  /\ pc[r] = "slice"
  /\ resp' = [resp EXCEPT ![r] = Response(items[r], page[r], page_size[r])]
  /\ pc' = [pc EXCEPT ![r] = "done"]
  /\ UNCHANGED <<cache, origin, clock, ticks, query, page, page_size, now, all_items, items,
                 fetches, last_resp>>

\* ------------------------------------------------------------------ Spec
\* Concurrent requests against live feeds.
Good(t, l, e) ==
  [title |-> Text(t), link |-> Text(l), pubDate |-> DateText("rfc822", e),
   date |-> NoDate, updated |-> NoDate]

LiveResponses ==
  { [kind |-> "neterr", entries |-> <<>>],
    [kind |-> "rss", entries |-> <<Good(<<"A">>, <<"a">>, 2)>>],
    [kind |-> "rss", entries |-> <<Good(<<"B">>, <<"b">>, 1)>>] }

LivePages == {1, 2}
LiveSizes == {1}

Next ==
  \/ Tick
  \/ \E r \in Reqs :
       \/ \E p \in LivePages, ps \in LiveSizes : Start(r, p, ps)
       \/ CheckTs(r)
       \/ CheckItems(r)
       \/ FetchStep(r, LiveResponses)
       \/ MergeStore(r)
       \/ StoreTs(r)
       \/ ReadItems(r)
       \/ Respond(r)

Spec == Init /\ [][Next]_vars

InFlight(r) == pc[r] \notin {"idle", "done"}
PageStart(r) == (page[r] - 1) * page_size[r]

\* C1 (TTL gate): a request whose freshness test finds the cache Fresh (its
\* now minus the cached timestamp below 600, and the cached list non-empty)
\* goes on to the read without a single feed fetch, none of its steps changes
\* the cached timestamp or list, and its response is the page cut from the
\* list as stored in the cache.
C1_TTLGate ==
  [][\A r \in Reqs :
       /\ (pc[r] = "check_ts" /\ pc'[r] # "check_ts" /\ now[r] - cache.ts < CACHE_TTL)
            => (pc'[r] = "check_items" /\ cache' = cache /\ fetches'[r] = 0)
       /\ (pc[r] = "check_items" /\ pc'[r] # "check_items" /\ cache.items # <<>>)
            => (pc'[r] = "read" /\ cache' = cache /\ fetches'[r] = 0)
       /\ (pc[r] = "read" /\ pc'[r] # "read" /\ fetches[r] = 0)
            => (pc'[r] = "slice" /\ cache' = cache /\ fetches'[r] = 0
                /\ items'[r] = cache.items)
       /\ (pc[r] = "slice" /\ pc'[r] # "slice" /\ fetches[r] = 0)
            => (pc'[r] = "done" /\ cache' = cache /\ fetches'[r] = 0
                /\ resp'[r].status = 200
                /\ resp'[r].items
                     = Slice(items[r], PageStart(r), PageStart(r) + page_size[r]))
  ]_vars

\* a request answered from a Fresh cache filled at an earlier time
C1_Witness ==
  \E r \in Reqs :
    /\ pc[r] = "done" /\ fetches[r] = 0 /\ resp[r].status = 200
    /\ resp[r].items # <<>> /\ items[r] = cache.items
    /\ now[r] > cache.ts /\ now[r] - cache.ts < CACHE_TTL

\* C2 as stated (empty result is cached for the TTL): a request whose test
\* finds the list empty, stored by a cycle less than 600 seconds before,
\* performs no feed fetch.
C2_EmptyCachedForTTL ==
  [][\A r \in Reqs :
       (/\ pc[r] = "check_items" /\ pc'[r] # "check_items"
        /\ cache.items = <<>> /\ cache.ts # 0 /\ now[r] - cache.ts < CACHE_TTL)
         => pc'[r] # "fetch"
  ]_vars

\* C2 as amended: a cycle stores its timestamp whatever it yielded, and a
\* request whose test finds the cached list empty starts a fetch cycle,
\* however young the cached timestamp is.
C2_EmptyIsStale ==
  [][\A r \in Reqs :
       /\ (pc[r] = "store_ts" /\ pc'[r] # "store_ts") => cache'.ts = now[r]
       /\ (pc[r] = "check_items" /\ pc'[r] # "check_items" /\ cache.items = <<>>)
            => (pc'[r] = "fetch" /\ fetches'[r] = 0)
  ]_vars

\* an empty list stored by one whole cycle, and a request arriving within the
\* TTL of it that has entered the fetch loop
C2_Witness ==
  \E r \in Reqs :
    /\ cache.items = <<>> /\ cache.ts # 0 /\ origin.ts = origin.items
    /\ pc[r] = "fetch" /\ fetches[r] = 0 /\ now[r] - cache.ts < CACHE_TTL
    /\ \A q \in Reqs \ {r} : ~InFlight(q)

\* C7 as stated (wholesale replacement): whenever a request is about to read
\* the cache, the cached timestamp and the cached list were written by the
\* same recomputation, or are both the initial values.
C7_WholesaleReplace ==
  \A r \in Reqs :
    pc[r] \in {"check_ts", "check_items", "read"} => origin.ts = origin.items

\* C8 (no single-flight): a request at its freshness test with the cache
\* stale can always go on to its own fetch cycle, whatever the other requests
\* are doing; nothing makes it wait for a refresh already under way.
C8_NoSingleFlight ==
  \A r \in Reqs :
    /\ (pc[r] = "check_ts" /\ TsStale(r)) => ENABLED (CheckTs(r) /\ pc'[r] = "fetch")
    /\ (pc[r] = "check_items" /\ ItemsStale(r))
         => ENABLED (CheckItems(r) /\ pc'[r] = "fetch")

\* two requests of the same instant have each run a whole fetch cycle and each
\* overwritten the cached list
C8_Witness ==
  \E r, q \in Reqs :
    /\ r # q /\ now[r] = now[q]
    /\ pc[r] = "store_ts" /\ fetches[r] = NumFeeds
    /\ pc[q] = "store_ts" /\ fetches[q] = NumFeeds

\* C10 (response snapshot): items, total and has_more of a response all come
\* from the one list the request read from the cache, also when the cache has
\* been overwritten since.
C10_Snapshot ==
  \A r \in Reqs :
    (pc[r] = "done" /\ resp[r].status = 200) =>
      /\ resp[r].total = Len(items[r])
      /\ resp[r].has_more = (PageStart(r) + page_size[r] < Len(items[r]))
      /\ resp[r].items = Slice(items[r], PageStart(r), PageStart(r) + page_size[r])

\* a response whose list has been replaced in the cache by one of another length
C10_Witness ==
  \E r \in Reqs :
    /\ pc[r] = "done" /\ resp[r].status = 200
    /\ Len(cache.items) # Len(items[r])


\* ------------------------------------------------------------------ SpecParse
\* One request from process start, the feeds answering with any failure or any
\* RSS or Atom document of at most MaxEntries entries.
GoodTitle == Text(<<" ", "A", " ">>)
GoodLink == Text(<<"a", " ">>)
Dates1 == [pubDate |-> DateText("rfc822", 2), date |-> NoDate, updated |-> DateText("iso_z", 2)]
Dates2 ==
  [pubDate |-> NoDate, date |-> DateText("iso_offset", 1), updated |-> DateText("other", 0)]

Entry(t, l, d) ==
  [title |-> t, link |-> l, pubDate |-> d.pubDate, date |-> d.date, updated |-> d.updated]

ParseEntries ==
  {Entry(t, GoodLink, Dates1) : t \in {Absent, Empty, Text(<<" ">>), GoodTitle}}
    \cup {Entry(GoodTitle, l, Dates1) : l \in {Absent, Empty}}
    \cup {Entry(GoodTitle, GoodLink, Dates2)}

SeqsUpTo(S, n) == UNION {[1..k -> S] : k \in 0..n}

ParseResponses ==
  {[kind |-> k, entries |-> <<>>] : k \in FailureKinds}
    \cup {[kind |-> k, entries |-> es] : k \in {"rss", "atom"}, es \in SeqsUpTo(ParseEntries, MaxEntries)}

NextParse ==
  \E r \in {"r1"} :
    \/ pc[r] = "idle" /\ Start(r, 1, 12)
    \/ CheckTs(r)
    \/ FetchStep(r, ParseResponses)
    \/ MergeStore(r)
    \/ StoreTs(r)
    \/ ReadItems(r)
    \/ Respond(r)

SpecParse == Init /\ [][NextParse]_vars

\* C6 (per-feed failure isolation): a fetch step never ends the request with
\* an error; a feed that fails (network error, timeout, non-2xx status or
\* malformed XML) leaves all_items as it was; whatever the feed, the items of
\* the feeds before it stay as they were and what is appended is what this
\* feed's response yields by itself; and a request that ends, ends with a
\* normal response.
C6_FailureIsolation ==
  [][\A r \in Reqs :
       /\ fetches'[r] = fetches[r] + 1 =>
            /\ pc'[r] \in {"fetch", "merge"}
            /\ resp'[r].status # 500
            /\ IsFailure(last_resp'[r]) => all_items'[r] = all_items[r]
            /\ all_items'[r] = all_items[r] \o FetchFeed(last_resp'[r]).items
       /\ pc'[r] = "done" => resp'[r].status = 200
  ]_vars

\* the last feed of a cycle failed and the items of an earlier feed are there
C6_Witness ==
  \E r \in Reqs :
    /\ pc[r] = "merge" /\ fetches[r] = NumFeeds
    /\ IsFailure(last_resp[r]) /\ all_items[r] # <<>>

\* what C9 expects of a document: every entry whose title and link, missing
\* ones taken as empty, are non-empty after trimming, in document order
FieldText(f) == IF f.el = "text" THEN f.text ELSE <<>>

RECURSIVE ExpectedItems(_, _)
ExpectedItems(kind, es) ==
  IF es = <<>> THEN <<>>
  ELSE LET e == Head(es)
           t == Strip(FieldText(e.title))
           l == Strip(FieldText(e.link))
           pub == IF kind = "atom" THEN e.updated
                  ELSE IF e.pubDate.fmt # "empty" THEN e.pubDate ELSE e.date
       IN (IF t # <<>> /\ l # <<>> THEN <<MkItem(t, l, pub)>> ELSE <<>>)
            \o ExpectedItems(kind, Tail(es))

\* C9 as stated (per-item field-missing recovery): in the RSS and in the Atom
\* branch an entry with a missing or empty title or link is the only one
\* dropped; the feed contributes every other entry, in document order.
C9_FieldMissingRecovery ==
  [][\A r \in Reqs :
       (fetches'[r] = fetches[r] + 1 /\ last_resp'[r].kind \in {"rss", "atom"}) =>
         all_items'[r]
           = all_items[r] \o ExpectedItems(last_resp'[r].kind, last_resp'[r].entries)
  ]_vars

\* ------------------------------------------------------------------ SpecMerge
\* The merge of any concatenation of at most MaxConcat items: a request that
\* has left the fetch loop with that all_items, run to its response.
MergeDates == {DateText("other", 0), DateText("rfc822", 1)}

MergeItems ==
  {MkItem(t, l, d) : t \in {<<"A">>, <<"B">>}, l \in {<<"a">>, <<"b">>}, d \in MergeDates}

InitMerge ==
  /\ cache = [ts |-> 0, items |-> <<>>]
  /\ origin = [ts |-> InitTag, items |-> InitTag]
  /\ clock = StartClock
  /\ ticks = 0
  /\ pc = [r \in Reqs |-> IF r = "r1" THEN "merge" ELSE "idle"]
  /\ query = [r \in Reqs |-> [page |-> 1, page_size |-> 12]]
  /\ page = [r \in Reqs |-> 1]
  /\ page_size = [r \in Reqs |-> 12]
  /\ now = [r \in Reqs |-> IF r = "r1" THEN StartClock ELSE 0]
  /\ \E xs \in SeqsUpTo(MergeItems, MaxConcat) :
       all_items = [r \in Reqs |-> IF r = "r1" THEN xs ELSE <<>>]
  /\ items = [r \in Reqs |-> <<>>]
  /\ fetches = [r \in Reqs |-> IF r = "r1" THEN NumFeeds ELSE 0]
  /\ last_resp = [r \in Reqs |-> NoResponse]
  /\ resp = [r \in Reqs |-> Pending]

NextMerge ==
  \E r \in Reqs :
    \/ MergeStore(r)
    \/ StoreTs(r)
    \/ ReadItems(r)
    \/ Respond(r)

SpecMerge == InitMerge /\ [][NextMerge]_vars

Merged(r) == pc[r] \in {"store_ts", "read", "slice", "done"} /\ fetches[r] = NumFeeds

\* k is the place in xs of the item the merge keeps for the link of xs[k]:
\* no item of that link has a greater timestamp, none of the same timestamp
\* comes earlier
KeptAt(xs, k) ==
  \A j \in 1..Len(xs) :
    xs[j].link = xs[k].link =>
      \/ xs[j].timestamp < xs[k].timestamp
      \/ xs[j].timestamp = xs[k].timestamp /\ j >= k

\* C3 (deduplication by link): the cached list never holds two items of one
\* link; and after a recomputation every link of the concatenation is in the
\* cached list, with the item that comes first among the items of that link
\* when the concatenation is put in descending timestamp order.
C3_DedupByLink ==
  /\ \A i, j \in 1..Len(cache.items) :
       cache.items[i].link = cache.items[j].link => i = j
  /\ \A r \in Reqs :
       Merged(r) =>
         /\ \A k \in 1..Len(all_items[r]) :
              KeptAt(all_items[r], k) =>
                \E i \in 1..Len(cache.items) : cache.items[i] = all_items[r][k]
         /\ \A i \in 1..Len(cache.items) :
              \E k \in 1..Len(all_items[r]) :
                KeptAt(all_items[r], k) /\ cache.items[i] = all_items[r][k]

\* a link came twice, the later one with the greater timestamp, and the list
\* stored keeps two links
C3_Witness ==
  \E r \in Reqs :
    /\ Merged(r) /\ pc[r] = "done" /\ Len(cache.items) = 2
    /\ \E j, k \in 1..Len(all_items[r]) :
         /\ j < k /\ all_items[r][j].link = all_items[r][k].link
         /\ all_items[r][j].timestamp < all_items[r][k].timestamp

\* the first place of item x in xs
FirstIdx(xs, x) == CHOOSE k \in 1..Len(xs) : xs[k] = x /\ \A j \in 1..(k - 1) : xs[j] # x

\* C4 (stable descending sort): after a recomputation the cached list is in
\* non-increasing timestamp order, and two of its items with the same
\* timestamp stand in the order they have in the concatenation.
C4_StableDescending ==
  \A r \in Reqs :
    Merged(r) =>
      \A i, j \in 1..Len(cache.items) :
        i < j =>
          /\ cache.items[i].timestamp >= cache.items[j].timestamp
          /\ cache.items[i].timestamp = cache.items[j].timestamp =>
               FirstIdx(all_items[r], cache.items[i]) < FirstIdx(all_items[r], cache.items[j])

\* two kept items tie, and the link of the second had come in the
\* concatenation, with a smaller timestamp, before the first of them
C4_Witness ==
  \E r \in Reqs :
    /\ Merged(r) /\ pc[r] = "done" /\ Len(cache.items) = 2
    /\ cache.items[1].timestamp = cache.items[2].timestamp
    /\ \E j \in 1..Len(all_items[r]) :
         /\ j < FirstIdx(all_items[r], cache.items[1])
         /\ all_items[r][j].link = cache.items[2].link

\* ------------------------------------------------------------------ SpecPage
\* One request after another against a cache of any length up to MaxTotal,
\* with page and page_size inside and outside their ranges.
PageList(n) ==
  [k \in 1..n |-> MkItem(<<"A">>, [j \in 1..k |-> "a"], DateText("rfc822", n - k + 1))]

PageInputs == {-1, 0, 1, 2, 3, 100}
SizeInputs == {-1, 0, 1, 2, 12, 50, 51, 60}

InitPage ==
  /\ \E n \in 0..MaxTotal : cache = [ts |-> IF n = 0 THEN 0 ELSE StartClock, items |-> PageList(n)]
  /\ origin = [ts |-> InitTag, items |-> InitTag]
  /\ clock = StartClock
  /\ ticks = 0
  /\ pc = [r \in Reqs |-> "idle"]
  /\ Locals0

NextPage ==
  \E r \in {"r1"} :
    \/ \E p \in PageInputs, ps \in SizeInputs : Start(r, p, ps)
    \/ CheckTs(r)
    \/ CheckItems(r)
    \/ FetchStep(r, {[kind |-> "timeout", entries |-> <<>>]})
    \/ MergeStore(r)
    \/ StoreTs(r)
    \/ ReadItems(r)
    \/ Respond(r)

SpecPage == InitPage /\ [][NextPage]_vars

\* C5 (pagination bounds): with page raised to at least 1, page_size brought
\* into 1..50 and start = (page - 1) * page_size, the response holds the
\* items start+1 .. start+page_size of the cached list as far as they exist,
\* min(page_size, max(0, total - start)) of them, total is the length of the
\* list and has_more says whether start + page_size < total.
C5_PaginationBounds ==
  \A r \in Reqs :
    pc[r] = "done" =>
      LET p == Max(1, query[r].page)
          ps == IF query[r].page_size < 1 THEN 1
                ELSE IF query[r].page_size > 50 THEN 50 ELSE query[r].page_size
          start == (p - 1) * ps
          total == Len(cache.items)
      IN /\ resp[r].status = 200
         /\ resp[r].page = p /\ resp[r].page_size = ps
         /\ resp[r].total = total
         /\ Len(resp[r].items) = Min(ps, Max(0, total - start))
         /\ \A k \in 1..Len(resp[r].items) : resp[r].items[k] = cache.items[start + k]
         /\ resp[r].has_more = (start + ps < total)

\* a full page of 50 cut out of a longer list by a page_size above the cap,
\* more to come
C5_Witness ==
  \E r \in Reqs :
    /\ pc[r] = "done" /\ query[r].page_size > 50 /\ query[r].page < 1
    /\ Len(resp[r].items) = 50 /\ resp[r].has_more /\ resp[r].total > 50

====
